---- MODULE Spec2Model ----
(***************************************************************************)
(* LinearVestingVault (contracts/LinearVestingVault.sol) together with the *)
(* ERC20 token it holds (contracts/TestToken.sol, an OpenZeppelin ERC20).  *)
(*                                                                         *)
(* A transaction either commits or reverts as a whole: an action that      *)
(* reverts leaves the store and the balances as they were and records the  *)
(* revert message in last.err.  Amounts stay far below 2^256 (the token's  *)
(* supply is 10^24), so the checked arithmetic of SafeMath can only fail   *)
(* on a subtraction below zero or a division by zero; both are modelled.   *)
(*                                                                         *)
(* Spec runs every call as one step from the state after construction,     *)
(* CalcSpec the vesting calculator on one allocation, StoreSpec revoke and *)
(* release on a sequence of several allocations, and TxSpec every call in  *)
(* steps around its external token call, which may fail or call back.      *)
(***************************************************************************)
EXTENDS Integers, Sequences, FiniteSets, TLC

\* ---------------------------------------------------------------- bounds
MaxTime == 3
MaxAmount == 2
MaxStart == 1
MaxCliff == 1
MaxDuration == 2
MaxAllocs == 2
Supply == 2

\* Bounds of CalcSpec, which evaluates the vesting calculator on one allocation.
CalcMaxStart == 2
CalcMaxDuration == 3
CalcMaxTime == 6

\* Bound of StoreSpec: the number of allocations one beneficiary holds.
StoreGrants == 3

\* Bounds of TxSpec, which runs every call step by step around its external
\* token call: the allocations alice holds at the start, the tokens the owner
\* holds and has approved, and the number of calls in progress at once.
TxGrants == 2
TxSupply == 1
MaxDepth == 3

\* ------------------------------------------------------------- addresses
\* The token's holders; the vault's own address is an address like any other
\* and can be named as a beneficiary.
Holders == {"owner", "alice", "vault"}
Beneficiaries == {"alice", "vault"}
Callers == {"owner", "alice"}
Owner == "owner"
Vault == "vault"
Zero == "zero"

\* Arguments of issue: percentages (101 is rejected), cliffs and durations.
\* A start at MaxStart lies in the future while now < MaxStart, is the
\* present at now = MaxStart and lies in the past afterwards.
Pcts == {0, 50, 101}
Cliffs == 0..MaxCliff
Durations == {0, MaxDuration}
Starts == {MaxStart}
CalcAmounts == {0, 1, 3, 100}
CalcPcts == {0, 33, 50, 100}

VARIABLES now, allocations, balances, allowance, last, stack, paid

vars == <<now, allocations, balances, allowance, last, stack, paid>>

\* The calls in progress and the payments made per allocation; both are kept
\* by TxSpec only, the other specifications run every call in one step.
calls == <<stack, paid>>

\* ------------------------------------------------------ revert messages
OK == "ok"
ErrNotOwner == "Ownable: caller is not the owner"
ErrAllowance == "Token allowance not sufficient"
ErrZero == "Cannot grant tokens to the zero address"
ErrCliff == "Cliff must not exceed duration"
ErrPct == "Initial release percentage must be an integer 0 to 100 (inclusive)"
ErrIndex == "Index should be smaller than vesting array length"
ErrNothing == "Nothing to release"
ErrBalance == "ERC20: transfer amount exceeds balance"
ErrSub == "SafeMath: subtraction overflow"
ErrDiv == "SafeMath: division by zero"

\* A value no uint256 computation returns: the computation reverted.
SubOverflow == -1
DivByZero == -2

\* -------------------------------------------------------------- records
Allocation(start, cliff, duration, total, claimed, initial) ==
    [start |-> start, cliff |-> cliff, duration |-> duration,
     total |-> total, claimed |-> claimed, initial |-> initial]

Call(op, beneficiary, index, err, sent) ==
    [op |-> op, beneficiary |-> beneficiary, index |-> index,
     err |-> err, sent |-> sent]

Sent(from, to, amount) == [from |-> from, to |-> to, amount |-> amount]

\* ----------------------------------------------------- vesting calculator
\* Variants of _vestedAmount with one slip each.
\* The linear part computed on total instead of total - initial.
_vestedAmount_NoSubInitial(allocation, timestamp) ==
    IF timestamp < allocation.start + allocation.cliff
    THEN 0
    ELSE IF timestamp >= allocation.start + allocation.duration
    THEN allocation.total
    ELSE allocation.initial
           + (allocation.total * (timestamp - allocation.start))
               \div allocation.duration

\* Elapsed time measured from the end of the cliff instead of from start.
_vestedAmount_FromCliff(allocation, timestamp) ==
    IF timestamp < allocation.start + allocation.cliff
    THEN 0
    ELSE IF timestamp >= allocation.start + allocation.duration
    THEN allocation.total
    ELSE allocation.initial
           + ((allocation.total - allocation.initial)
                * (timestamp - allocation.start - allocation.cliff))
               \div allocation.duration

\* Nothing vested yet at exactly start + cliff.
_vestedAmount_StrictCliff(allocation, timestamp) ==
    IF timestamp <= allocation.start + allocation.cliff
    THEN 0
    ELSE IF timestamp >= allocation.start + allocation.duration
    THEN allocation.total
    ELSE allocation.initial
           + ((allocation.total - allocation.initial)
                * (timestamp - allocation.start))
               \div allocation.duration

\* The schedule not capped at total once the duration has passed.
_vestedAmount_NoEnd(allocation, timestamp) ==
    IF timestamp < allocation.start + allocation.cliff
    THEN 0
    ELSE IF allocation.initial > allocation.total \/ allocation.start > timestamp
    THEN SubOverflow
    ELSE IF allocation.duration = 0
    THEN DivByZero
    ELSE allocation.initial
           + ((allocation.total - allocation.initial)
                * (timestamp - allocation.start)) \div allocation.duration

\* The end of the schedule tested with > instead of >=.
_vestedAmount_StrictEnd(allocation, timestamp) ==
    IF timestamp < allocation.start + allocation.cliff
    THEN 0
    ELSE IF timestamp > allocation.start + allocation.duration
    THEN allocation.total
    ELSE IF allocation.initial > allocation.total \/ allocation.start > timestamp
    THEN SubOverflow
    ELSE IF allocation.duration = 0
    THEN DivByZero
    ELSE allocation.initial
           + ((allocation.total - allocation.initial)
                * (timestamp - allocation.start)) \div allocation.duration

\* The named return value `amount` is still 0 where the third branch
\* subtracts it.
_vestedAmount(allocation, timestamp) ==
    IF timestamp < allocation.start + allocation.cliff
    THEN 0
    ELSE IF timestamp >= allocation.start + allocation.duration
    THEN allocation.total
    ELSE IF allocation.initial > allocation.total \/ allocation.start > timestamp
    THEN SubOverflow
    ELSE IF allocation.duration = 0
    THEN DivByZero
    ELSE allocation.initial
           + (((allocation.total - allocation.initial) - 0)
                * (timestamp - allocation.start)) \div allocation.duration

\* The vested amount returned without subtracting what was claimed.
_releasableAmount_NoClaimed(allocation, timestamp) ==
    _vestedAmount(allocation, timestamp)

_releasableAmount(allocation, timestamp) ==
    LET vested == _vestedAmount(allocation, timestamp)
    IN  IF vested < 0 THEN vested
        ELSE IF allocation.claimed > vested THEN SubOverflow
        ELSE vested - allocation.claimed

ErrOf(amount) == IF amount = DivByZero THEN ErrDiv ELSE ErrSub

\* ---------------------------------------------------------------- token
\* ERC20._transfer of the token: the balance of `from` must cover `amount`.
canTransfer(bal, from, amount) == bal[from] >= amount

transfer(bal, from, to, amount) ==
    [h \in Holders |->
        IF h = from /\ h = to THEN bal[h]
        ELSE IF h = from THEN bal[h] - amount
        ELSE IF h = to THEN bal[h] + amount
        ELSE bal[h]]

RECURSIVE SumOver(_, _)
SumOver(f, S) ==
    IF S = {} THEN 0
    ELSE LET x == CHOOSE y \in S : TRUE IN f[x] + SumOver(f, S \ {x})

\* Number of allocations in the store.
Live(allocs) == SumOver([b \in Beneficiaries |-> Len(allocs[b])], Beneficiaries)

\* ----------------------------------------------------------------- init
Init ==
    /\ now = 0
    /\ allocations = [b \in Beneficiaries |-> <<>>]
    /\ balances = [h \in Holders |-> IF h = Owner THEN Supply ELSE 0]
    /\ allowance = 0
    /\ last = Call("constructor", Zero, 0, OK, <<>>)
    /\ stack = <<>>
    /\ paid = <<>>

Reverted(op, beneficiary, index, err) ==
    /\ last' = Call(op, beneficiary, index, err, <<>>)
    /\ UNCHANGED <<now, allocations, balances, allowance, calls>>

\* ---------------------------------------------------------------- issue
\* issue without the check of _initialPct.
issueErr_NoPctCheck(caller, _beneficiary, _amount, _cliff, _duration, _initialPct) ==
    IF caller # Owner THEN ErrNotOwner
    ELSE IF allowance < _amount THEN ErrAllowance
    ELSE IF _beneficiary = Zero THEN ErrZero
    ELSE IF _cliff > _duration THEN ErrCliff
    ELSE IF ~canTransfer(balances, caller, _amount) THEN ErrBalance
    ELSE OK

issueErr(caller, _beneficiary, _amount, _cliff, _duration, _initialPct) ==
    IF caller # Owner THEN ErrNotOwner
    ELSE IF allowance < _amount THEN ErrAllowance
    ELSE IF _beneficiary = Zero THEN ErrZero
    ELSE IF _cliff > _duration THEN ErrCliff
    ELSE IF _initialPct > 100 THEN ErrPct
    ELSE IF ~canTransfer(balances, caller, _amount) THEN ErrBalance
    ELSE OK

\* issue storing the time of the call as the start of the schedule.
issue_StartNow(caller, _beneficiary, _amount, _startAt, _cliff, _duration, _initialPct) ==
    LET err == issueErr(caller, _beneficiary, _amount, _cliff, _duration, _initialPct)
    IN  IF err # OK
        THEN Reverted("issue", Zero, 0, err)
        ELSE /\ Live(allocations) < MaxAllocs
             /\ balances' = transfer(balances, caller, Vault, _amount)
             /\ allowance' = allowance - _amount
             /\ allocations' =
                  [allocations EXCEPT ![_beneficiary] =
                     Append(@, Allocation(now, _cliff, _duration, _amount, 0,
                                          (_amount * _initialPct) \div 100))]
             /\ last' = Call("issue", _beneficiary,
                             Len(allocations[_beneficiary]), OK,
                             <<Sent(caller, Vault, _amount)>>)
             /\ UNCHANGED <<now, calls>>

issue(caller, _beneficiary, _amount, _startAt, _cliff, _duration, _initialPct) ==
    LET err == issueErr(caller, _beneficiary, _amount, _cliff, _duration, _initialPct)
    IN  IF err # OK
        THEN Reverted("issue", Zero, 0, err)
        ELSE /\ Live(allocations) < MaxAllocs
             /\ balances' = transfer(balances, caller, Vault, _amount)
             /\ allowance' = allowance - _amount
             /\ allocations' =
                  [allocations EXCEPT ![_beneficiary] =
                     Append(@, Allocation(_startAt, _cliff, _duration, _amount, 0,
                                          (_amount * _initialPct) \div 100))]
             /\ last' = Call("issue", _beneficiary,
                             Len(allocations[_beneficiary]), OK,
                             <<Sent(caller, Vault, _amount)>>)
             /\ UNCHANGED <<now, calls>>

\* --------------------------------------------------------------- revoke
\* The element at _index removed with the order of the others kept.
removeSwapPop_Shift(seq, _index) ==
    [j \in 1..(Len(seq) - 1) |-> IF j <= _index THEN seq[j] ELSE seq[j + 1]]

\* The sequence without the element at 0-based _index: the last element
\* takes its place unless it is the last, then the sequence is popped.
removeSwapPop(seq, _index) ==
    LET length == Len(seq)
        moved  == IF _index # length - 1
                  THEN [seq EXCEPT ![_index + 1] = seq[length]]
                  ELSE seq
    IN  SubSeq(moved, 1, length - 1)

\* Only what has not vested yet goes back to the owner.
revokeRemainder_Unvested(allocation) ==
    LET vested == _vestedAmount(allocation, now)
    IN  allocation.total
          - (IF vested > allocation.claimed THEN vested ELSE allocation.claimed)

revokeRemainder(allocation) == allocation.total - allocation.claimed

revokeErr(caller, _beneficiary, _index) ==
    IF caller # Owner THEN ErrNotOwner
    ELSE IF ~(_index < Len(allocations[_beneficiary])) THEN ErrIndex
    ELSE LET allocation == allocations[_beneficiary][_index + 1]
         IN  IF allocation.claimed > allocation.total THEN ErrSub
             ELSE IF ~canTransfer(balances, Vault, revokeRemainder(allocation))
             THEN ErrBalance
             ELSE OK

revoke(caller, _beneficiary, _index) ==
    LET err == revokeErr(caller, _beneficiary, _index)
    IN  IF err # OK
        THEN Reverted("revoke", Zero, 0, err)
        ELSE LET allocation == allocations[_beneficiary][_index + 1]
                 remainder  == revokeRemainder(allocation)
             IN  /\ allocations' = [allocations EXCEPT ![_beneficiary] =
                                       removeSwapPop(@, _index)]
                 /\ balances' = transfer(balances, Vault, caller, remainder)
                 /\ last' = Call("revoke", _beneficiary, _index, OK,
                                 <<Sent(Vault, caller, remainder)>>)
                 /\ UNCHANGED <<now, allowance, calls>>

\* -------------------------------------------------------------- release
\* The state a call works on: the store, the balances, the transfers made
\* so far and the revert message (OK while the call has not reverted).
Frame(allocs, bal, sent, err) ==
    [allocations |-> allocs, balances |-> bal, sent |-> sent, err |-> err]

\* release working on a memory copy of the allocation: claimed is not stored.
releaseBody_NoClaimedWrite(f, _beneficiary, _index) ==
    IF ~(_index < Len(f.allocations[_beneficiary]))
    THEN [f EXCEPT !.err = ErrIndex]
    ELSE LET amount == _releasableAmount(f.allocations[_beneficiary][_index + 1], now)
         IN  IF amount < 0 THEN [f EXCEPT !.err = ErrOf(amount)]
             ELSE IF ~(amount > 0) THEN [f EXCEPT !.err = ErrNothing]
             ELSE IF ~canTransfer(f.balances, Vault, amount)
             THEN [f EXCEPT !.err = ErrBalance]
             ELSE Frame(f.allocations,
                        transfer(f.balances, Vault, _beneficiary, amount),
                        Append(f.sent, Sent(Vault, _beneficiary, amount)),
                        OK)

\* The body of release(_beneficiary, _index) run on frame f.
releaseBody(f, _beneficiary, _index) ==
    IF ~(_index < Len(f.allocations[_beneficiary]))
    THEN [f EXCEPT !.err = ErrIndex]
    ELSE LET allocation == f.allocations[_beneficiary][_index + 1]
             amount     == _releasableAmount(allocation, now)
         IN  IF amount < 0 THEN [f EXCEPT !.err = ErrOf(amount)]
             ELSE IF ~(amount > 0) THEN [f EXCEPT !.err = ErrNothing]
             ELSE IF ~canTransfer(f.balances, Vault, amount)
             THEN [f EXCEPT !.err = ErrBalance]
             ELSE Frame([f.allocations EXCEPT ![_beneficiary][_index + 1].claimed =
                            allocation.claimed + amount],
                        transfer(f.balances, Vault, _beneficiary, amount),
                        Append(f.sent, Sent(Vault, _beneficiary, amount)),
                        OK)

Commit(op, _beneficiary, _index, f) ==
    IF f.err # OK
    THEN Reverted(op, _beneficiary, _index, f.err)
    ELSE /\ allocations' = f.allocations
         /\ balances' = f.balances
         /\ last' = Call(op, _beneficiary, _index, OK, f.sent)
         /\ UNCHANGED <<now, allowance, calls>>

release(caller, _beneficiary, _index) ==
    Commit("release", _beneficiary, _index,
           releaseBody(Frame(allocations, balances, <<>>, OK), _beneficiary, _index))

\* ----------------------------------------------------------- releaseAll
\* The loop of releaseAll from index i on: a release that reverts reverts
\* the whole call.
\* The loop returning after its first release.
releaseLoop_FirstOnly(f, _beneficiary, i) ==
    IF ~(i < Len(f.allocations[_beneficiary])) THEN f
    ELSE releaseBody(f, _beneficiary, i)

RECURSIVE releaseLoop(_, _, _)
releaseLoop(f, _beneficiary, i) ==
    IF ~(i < Len(f.allocations[_beneficiary])) THEN f
    ELSE LET g == releaseBody(f, _beneficiary, i)
         IN  IF g.err # OK THEN g ELSE releaseLoop(g, _beneficiary, i + 1)

releaseAll(caller, _beneficiary) ==
    Commit("releaseAll", _beneficiary, 0,
           releaseLoop(Frame(allocations, balances, <<>>, OK), _beneficiary, 0))

\* ---------------------------------------------------------------- views
releasableAmount(_beneficiary, _index) ==
    _releasableAmount(allocations[_beneficiary][_index + 1], now)

\* ----------------------------------------------------------------- time
Tick ==
    /\ now < MaxTime
    /\ now' = now + 1
    /\ last' = Call("tick", Zero, 0, OK, <<>>)
    /\ UNCHANGED <<allocations, balances, allowance, calls>>

approve(amount) ==
    /\ allowance' = amount
    /\ last' = Call("approve", Zero, 0, OK, <<>>)
    /\ UNCHANGED <<now, allocations, balances, calls>>

\* A call by another account than the owner reverts in onlyOwner before any
\* argument is read, so one argument list stands for all.  An index is drawn
\* from the valid ones and the first invalid one.
Next ==
    \/ Tick
    \/ \E amount \in 0..MaxAmount : approve(amount)
    \/ \E b \in Beneficiaries \cup {Zero}, amount \in 0..MaxAmount,
          startAt \in Starts, cliff \in Cliffs,
          duration \in Durations, pct \in Pcts :
          issue(Owner, b, amount, startAt, cliff, duration, pct)
    \/ \E caller \in Callers \ {Owner} : issue(caller, "alice", 0, 0, 0, 0, 0)
    \/ \E b \in Beneficiaries : \E index \in 0..Len(allocations[b]) :
          revoke(Owner, b, index)
    \/ \E caller \in Callers \ {Owner} : revoke(caller, "alice", 0)
    \/ \E caller \in Callers, b \in Beneficiaries :
          \E index \in 0..Len(allocations[b]) : release(caller, b, index)
    \/ \E caller \in Callers, b \in Beneficiaries : releaseAll(caller, b)

Spec == Init /\ [][Next]_vars

\* ------------------------------------------- the calculator on its own
\* One allocation as issue creates it, held for alice; time runs past the
\* end of every schedule and anyone may release.
CalcInit ==
    \E amount \in CalcAmounts, startAt \in 0..CalcMaxStart, pct \in CalcPcts,
       duration \in 0..CalcMaxDuration :
       \E cliff \in 0..duration :
          /\ now = 0
          /\ allocations =
               [b \in Beneficiaries |->
                  IF b = "alice"
                  THEN <<Allocation(startAt, cliff, duration, amount, 0,
                                    (amount * pct) \div 100)>>
                  ELSE <<>>]
          /\ balances = [h \in Holders |-> IF h = Vault THEN amount ELSE 0]
          /\ allowance = 0
          /\ last = Call("issue", "alice", 0, OK, <<Sent(Owner, Vault, amount)>>)
          /\ stack = <<>>
          /\ paid = <<>>

CalcTick ==
    /\ now < CalcMaxTime
    /\ now' = now + 1
    /\ last' = Call("tick", Zero, 0, OK, <<>>)
    /\ UNCHANGED <<allocations, balances, allowance, calls>>

CalcNext ==
    \/ CalcTick
    \/ \E caller \in Callers : release(caller, "alice", 0)

CalcSpec == CalcInit /\ [][CalcNext]_vars

\* ------------------------------------------- one beneficiary's sequence
\* alice holds StoreGrants allocations and the other beneficiary one, as
\* issue created them at time 0; the owner revokes alice's, anyone releases
\* them, time runs to the end of every schedule.
StoreTypes ==
    {Allocation(MaxStart, cd[1], cd[2], amount, 0, (amount * pct) \div 100) :
        cd \in {<<0, 0>>, <<MaxCliff, MaxDuration>>},
        amount \in 1..MaxAmount, pct \in {0, 50}}

StoreOther == Allocation(MaxStart, 0, MaxDuration, 1, 0, 0)

StoreInit ==
    \E grants \in [1..StoreGrants -> StoreTypes] :
       /\ now = 0
       /\ allocations = [b \in Beneficiaries |->
                           IF b = "alice" THEN grants ELSE <<StoreOther>>]
       /\ balances =
            [h \in Holders |->
               IF h = Vault
               THEN SumOver([i \in 1..StoreGrants |-> grants[i].total], 1..StoreGrants)
                      + StoreOther.total
               ELSE 0]
       /\ allowance = 0
       /\ last = Call("issue", "alice", StoreGrants - 1, OK,
                      <<Sent(Owner, Vault, grants[StoreGrants].total)>>)
       /\ stack = <<>>
       /\ paid = <<>>

StoreNext ==
    \/ Tick
    \/ \E index \in 0..Len(allocations["alice"]) : revoke(Owner, "alice", index)
    \/ \E caller \in Callers :
          \E index \in 0..Len(allocations["alice"]) : release(caller, "alice", index)
    \/ \E caller \in Callers : releaseAll(caller, "alice")

StoreSpec == StoreInit /\ [][StoreNext]_vars

\* ------------------------------------------- calls run step by step
\* TxSpec runs issue, release, releaseAll and revoke in steps around their
\* external token call.  The token is any ERC20 the vault was constructed
\* with: its transfer may revert, and while it runs it may call back into the
\* vault (release, releaseAll, revoke) before or after it moves the balance.
\* A call that reverts puts the state back to what it was when the call was
\* entered.  Every allocation carries an id, and paid records per id the total
\* granted and the tokens transferred out of the vault on its account.
ErrTransfer == "SafeERC20: low-level call failed"

Tagged(allocation, id) == [id |-> id] @@ allocation
Payment(total, out) == [total |-> total, out |-> out]

Snapshot ==
    [allocations |-> allocations, balances |-> balances,
     allowance |-> allowance, paid |-> paid]

CallFrame(op, beneficiary, index, from, to, amount, allocation, moved, snap) ==
    [op |-> op, beneficiary |-> beneficiary, index |-> index, from |-> from,
     to |-> to, amount |-> amount, allocation |-> allocation, moved |-> moved,
     snap |-> snap]

NoAllocation == Tagged(Allocation(0, 0, 0, 0, 0, 0), 0)

Top == stack[Len(stack)]

\* The innermost call is inside its external token call.
InTransfer == stack # <<>> /\ Top.op # "releaseAll"

\* A call can be made by an account when no call is in progress, and by the
\* token or the receiver of a transfer while that transfer runs.
CanCall == (stack = <<>> \/ InTransfer) /\ Len(stack) < MaxDepth

\* Every call writing the store only after its token call has returned.
WritesFirst_None(op) == FALSE

\* The calls that write the store before their external token call: release
\* (line 119 before 120) and revoke (lines 96-97 before 99), not issue (line
\* 76 after 75).
WritesFirst(op) == op \in {"release", "revoke"}

canWrite(f, allocs) ==
    f.op = "issue" \/ f.index < Len(allocs[f.beneficiary])

\* The store after the store write of the call of frame f.
written(f, allocs) ==
    IF f.op = "release"
    THEN [allocs EXCEPT ![f.beneficiary][f.index + 1].claimed = @ + f.amount]
    ELSE IF f.op = "revoke"
    THEN [allocs EXCEPT ![f.beneficiary] = removeSwapPop(@, f.index)]
    ELSE [allocs EXCEPT ![f.beneficiary] = Append(@, f.allocation)]

\* The call of frame f runs up to its external token call.
Enter(f, payments) ==
    /\ stack' = Append(stack, f)
    /\ allocations' = IF WritesFirst(f.op) THEN written(f, allocations)
                      ELSE allocations
    /\ paid' = payments
    /\ last' = Call(f.op, f.beneficiary, f.index, OK, <<>>)
    /\ UNCHANGED <<now, balances, allowance>>

\* A revert that leaves the store as the reverted call wrote it.
Rollback_StoreKept(f) ==
    /\ allocations' = allocations
    /\ balances' = f.snap.balances
    /\ allowance' = f.snap.allowance
    /\ paid' = f.snap.paid

\* A revert undoes all the call of frame f did, the calls made from inside
\* its token call included.
Rollback(f) ==
    /\ allocations' = f.snap.allocations
    /\ balances' = f.snap.balances
    /\ allowance' = f.snap.allowance
    /\ paid' = f.snap.paid

\* The position in the stack of the call a revert of the innermost call
\* unwinds to: releaseAll calls release internally, so a reverting release of
\* its loop reverts the releaseAll.
Unwound ==
    IF Len(stack) > 1 /\ Top.op # "releaseAll"
         /\ stack[Len(stack) - 1].op = "releaseAll"
    THEN Len(stack) - 1
    ELSE Len(stack)

Fail(err) ==
    LET f == stack[Unwound]
    IN  /\ Rollback(f)
        /\ stack' = SubSeq(stack, 1, Unwound - 1)
        /\ last' = Call(f.op, f.beneficiary, f.index, err, <<>>)
        /\ UNCHANGED now

\* The revert message of release(_beneficiary, _index) up to line 117.
releaseErr(_beneficiary, _index) ==
    IF ~(_index < Len(allocations[_beneficiary])) THEN ErrIndex
    ELSE LET amount == _releasableAmount(allocations[_beneficiary][_index + 1], now)
         IN  IF amount < 0 THEN ErrOf(amount)
             ELSE IF ~(amount > 0) THEN ErrNothing
             ELSE OK

releaseFrame(_beneficiary, _index) ==
    LET allocation == allocations[_beneficiary][_index + 1]
    IN  CallFrame("release", _beneficiary, _index, Vault, _beneficiary,
                  _releasableAmount(allocation, now), allocation, FALSE, Snapshot)

TxRelease(_beneficiary, _index) ==
    /\ CanCall
    /\ LET err == releaseErr(_beneficiary, _index)
       IN  IF err # OK
           THEN Reverted("release", _beneficiary, _index, err)
           ELSE Enter(releaseFrame(_beneficiary, _index), paid)

TxReleaseAll(_beneficiary) ==
    /\ CanCall
    /\ Len(stack) + 1 < MaxDepth
    /\ stack' = Append(stack, CallFrame("releaseAll", _beneficiary, 0, Zero, Zero,
                                        0, NoAllocation, FALSE, Snapshot))
    /\ last' = Call("releaseAll", _beneficiary, 0, OK, <<>>)
    /\ UNCHANGED <<now, allocations, balances, allowance, paid>>

\* One turn of the loop of releaseAll: the next release is entered, or the
\* loop ends and releaseAll returns.
TxLoop ==
    /\ stack # <<>>
    /\ Top.op = "releaseAll"
    /\ IF Top.index < Len(allocations[Top.beneficiary])
       THEN LET err == releaseErr(Top.beneficiary, Top.index)
            IN  IF err # OK
                THEN Fail(err)
                ELSE Enter(releaseFrame(Top.beneficiary, Top.index), paid)
       ELSE /\ stack' = SubSeq(stack, 1, Len(stack) - 1)
            /\ last' = Call("releaseAll", Top.beneficiary, Top.index, OK, <<>>)
            /\ UNCHANGED <<now, allocations, balances, allowance, paid>>

TxRevoke(_beneficiary, _index) ==
    /\ CanCall
    /\ IF ~(_index < Len(allocations[_beneficiary]))
       THEN Reverted("revoke", _beneficiary, _index, ErrIndex)
       ELSE LET allocation == allocations[_beneficiary][_index + 1]
            IN  IF allocation.claimed > allocation.total
                THEN Reverted("revoke", _beneficiary, _index, ErrSub)
                ELSE Enter(CallFrame("revoke", _beneficiary, _index, Vault, Owner,
                                     revokeRemainder(allocation), allocation,
                                     FALSE, Snapshot),
                           paid)

\* issue is called by the owner while no call is in progress.
TxIssue(_beneficiary, _amount, _startAt, _cliff, _duration, _initialPct) ==
    /\ stack = <<>>
    /\ LET err == issueErr(Owner, _beneficiary, _amount, _cliff, _duration, _initialPct)
           id  == Len(paid) + 1
       IN  IF err # OK
           THEN Reverted("issue", _beneficiary, 0, err)
           ELSE /\ Live(allocations) <= TxGrants
                /\ Enter(CallFrame("issue", _beneficiary,
                                   Len(allocations[_beneficiary]), Owner, Vault,
                                   _amount,
                                   Tagged(Allocation(_startAt, _cliff, _duration,
                                                     _amount, 0,
                                                     (_amount * _initialPct) \div 100),
                                          id),
                                   FALSE, Snapshot),
                         Append(paid, Payment(_amount, 0)))

\* The token moves the balance of the transfer in progress.
TxMove ==
    /\ InTransfer
    /\ ~Top.moved
    /\ canTransfer(balances, Top.from, Top.amount)
    /\ Top.op = "issue" => allowance >= Top.amount
    /\ balances' = transfer(balances, Top.from, Top.to, Top.amount)
    /\ allowance' = IF Top.op = "issue" THEN allowance - Top.amount ELSE allowance
    /\ paid' = IF Top.op = "issue" THEN paid
               ELSE [paid EXCEPT ![Top.allocation.id].out = @ + Top.amount]
    /\ stack' = [stack EXCEPT ![Len(stack)].moved = TRUE]
    /\ last' = Call(Top.op, Top.beneficiary, Top.index, OK,
                    <<Sent(Top.from, Top.to, Top.amount)>>)
    /\ UNCHANGED <<now, allocations>>

\* The token call reverts (or returns false, which safeTransfer and
\* safeTransferFrom turn into a revert).
TxTransferFails ==
    /\ InTransfer
    /\ Fail(ErrTransfer)

\* The token call returns, the call runs to its end and returns: a release of
\* the loop of releaseAll returns into the loop.  The events emitted here
\* write nothing; Released reads total - claimed of the slot of its
\* allocation, which holds claimed <= total whatever was swapped into it and
\* zeros once it is popped.
TxReturn ==
    /\ InTransfer
    /\ Top.moved
    /\ IF ~WritesFirst(Top.op) /\ ~canWrite(Top, allocations)
       THEN Fail(ErrIndex)
       ELSE LET rest == SubSeq(stack, 1, Len(stack) - 1)
            IN  /\ allocations' = IF WritesFirst(Top.op) THEN allocations
                                  ELSE written(Top, allocations)
                /\ stack' = IF rest # <<>> /\ rest[Len(rest)].op = "releaseAll"
                            THEN [rest EXCEPT ![Len(rest)].index = @ + 1]
                            ELSE rest
                /\ last' = Call(Top.op, Top.beneficiary, Top.index, OK, <<>>)
                /\ UNCHANGED <<now, balances, allowance, paid>>

\* Time passes between transactions.
TxTick ==
    /\ stack = <<>>
    /\ Tick

TxTypes ==
    {Allocation(MaxStart, 0, duration, MaxAmount, 0, 0) : duration \in Durations}

\* alice holds TxGrants allocations as issue created them at time 0, and the
\* owner has approved the tokens they still hold.
TxInit ==
    \E grants \in [1..TxGrants -> TxTypes] :
       /\ now = 0
       /\ allocations = [b \in Beneficiaries |->
                           IF b = "alice"
                           THEN [i \in 1..TxGrants |-> Tagged(grants[i], i)]
                           ELSE <<>>]
       /\ balances =
            [h \in Holders |->
               IF h = Vault
               THEN SumOver([i \in 1..TxGrants |-> grants[i].total], 1..TxGrants)
               ELSE IF h = Owner THEN TxSupply ELSE 0]
       /\ allowance = TxSupply
       /\ last = Call("approve", Zero, 0, OK, <<>>)
       /\ stack = <<>>
       /\ paid = [i \in 1..TxGrants |-> Payment(grants[i].total, 0)]

TxNext ==
    \/ TxTick
    \/ \E index \in 0..Len(allocations["alice"]) : TxRelease("alice", index)
    \/ TxReleaseAll("alice")
    \/ \E index \in 0..Len(allocations["alice"]) : TxRevoke("alice", index)
    \/ \E pct \in {0, 101} : TxIssue("alice", TxSupply, MaxStart, 0, 0, pct)
    \/ TxLoop
    \/ TxMove
    \/ TxTransferFails
    \/ TxReturn

TxSpec == TxInit /\ [][TxNext]_vars

\* ================================================================ claims
RECURSIVE SumSeq(_)
SumSeq(numbers) ==
    IF numbers = <<>> THEN 0 ELSE Head(numbers) + SumSeq(Tail(numbers))

Unclaimed(allocation) == allocation.total - allocation.claimed
SumUnclaimed(allocs) == SumSeq([i \in 1..Len(allocs) |-> Unclaimed(allocs[i])])
SumSent(sent) == SumSeq([i \in 1..Len(sent) |-> sent[i].amount])

\* Sum of total - claimed over the allocations of all beneficiaries.
Owed == SumOver([b \in Beneficiaries |-> SumUnclaimed(allocations[b])],
                Beneficiaries)

Stored == {<<b, i>> \in Beneficiaries \X (0..MaxAllocs) : i < Len(allocations[b])}
At(b, i) == allocations[b][i + 1]

\* The one allocation of CalcSpec.
Grant == allocations["alice"][1]
CalcTimes == 0..(CalcMaxTime + 1)

\* C1: the vault's token balance equals the sum of total - claimed over all
\* live allocations of all beneficiaries, after any sequence of calls.
C1_VaultBalanceIsOwed == balances[Vault] = Owed

\* C2: every stored allocation satisfies 0 <= claimed <= total.
C2_ClaimedWithinTotal ==
    \A p \in Stored :
        /\ 0 <= At(p[1], p[2]).claimed
        /\ At(p[1], p[2]).claimed <= At(p[1], p[2]).total

\* A release has just raised claimed to the total of an allocation that was
\* partly claimed before.
C2_Witness ==
    /\ last.op = "release"
    /\ last.err = OK
    /\ At(last.beneficiary, last.index).claimed = At(last.beneficiary, last.index).total
    /\ last.sent[1].amount < At(last.beneficiary, last.index).total

\* C3: for an allocation that issue created, the vested amount never
\* decreases as time goes on: t1 <= t2 implies vested(t1) <= vested(t2),
\* also across the cliff and across the end of the duration.
C3_VestedMonotonic ==
    \A t1 \in CalcTimes : \A t2 \in CalcTimes :
        t1 <= t2 => /\ 0 <= _vestedAmount(Grant, t1)
                    /\ _vestedAmount(Grant, t1) <= _vestedAmount(Grant, t2)

\* An allocation with a cliff and an initial tranche, between cliff and end,
\* whose vested amount has just grown and will grow again.
C3_Witness ==
    /\ Grant.cliff > 0
    /\ 0 < Grant.initial
    /\ Grant.initial < Grant.total
    /\ now > Grant.start + Grant.cliff
    /\ now < Grant.start + Grant.duration
    /\ _vestedAmount(Grant, now - 1) < _vestedAmount(Grant, now)
    /\ _vestedAmount(Grant, now) < _vestedAmount(Grant, now + 1)

\* C4: _vestedAmount is 0 before start + cliff, total from start + duration
\* on, and in between initial plus the floor of
\* (total - initial) * (now - start) / duration; releasableAmount is that
\* value minus claimed.  The floor q of x / d is stated as d*q <= x < d*(q+1).
C4_VestedPiecewise ==
    LET a == Grant
        v == _vestedAmount(a, now)
        linear == v - a.initial
    IN  /\ now < a.start + a.cliff => v = 0
        /\ now >= a.start + a.duration => v = a.total
        /\ (now >= a.start + a.cliff /\ now < a.start + a.duration) =>
              /\ linear >= 0
              /\ a.duration * linear <= (a.total - a.initial) * (now - a.start)
              /\ (a.total - a.initial) * (now - a.start) < a.duration * (linear + 1)
        /\ releasableAmount("alice", 0) = v - a.claimed

\* Between cliff and end, part of the allocation claimed, and the division
\* leaves a remainder.
C4_Witness ==
    /\ now >= Grant.start + Grant.cliff
    /\ now < Grant.start + Grant.duration
    /\ Grant.claimed > 0
    /\ ((Grant.total - Grant.initial) * (now - Grant.start)) % Grant.duration # 0
    /\ releasableAmount("alice", 0) > 0

\* C5 as stated: the vested amount at exactly start + cliff equals initial.
C5_VestedAtCliffIsInitial ==
    now = Grant.start + Grant.cliff => _vestedAmount(Grant, now) = Grant.initial

\* C5 as amended: at exactly start + cliff the vested amount is the initial
\* tranche plus the linear part for the time of the cliff, that is
\* initial + floor((total - initial) * cliff / duration) when cliff < duration,
\* and total when cliff = duration.
C5_VestedAtCliff ==
    now = Grant.start + Grant.cliff =>
        /\ Grant.cliff = Grant.duration => _vestedAmount(Grant, now) = Grant.total
        /\ Grant.cliff < Grant.duration =>
              _vestedAmount(Grant, now) =
                 Grant.initial
                   + ((Grant.total - Grant.initial) * Grant.cliff) \div Grant.duration
        /\ (Grant.cliff = 0 /\ Grant.duration > 0) =>
              _vestedAmount(Grant, now) = Grant.initial

\* total = 100 and initialPct = 50 at the end of a cliff of 2 out of 3:
\* 83 is releasable, not 50.
C5_Witness ==
    /\ now = Grant.start + Grant.cliff
    /\ Grant.total = 100
    /\ Grant.initial = 50
    /\ Grant.claimed = 0
    /\ Grant.cliff = 2
    /\ Grant.duration = 3
    /\ releasableAmount("alice", 0) = 83

\* C6: a release that follows a successful release of the same allocation,
\* with no time elapsed and no call in between, fails with "Nothing to
\* release" and changes neither the store nor any balance.
C6_SecondReleaseFails ==
    [][(/\ last.op = "release"
        /\ last.err = OK
        /\ last'.op = "release"
        /\ last'.beneficiary = last.beneficiary
        /\ last'.index = last.index
        /\ now' = now)
       => (/\ last'.err = ErrNothing
           /\ last'.sent = <<>>
           /\ UNCHANGED <<allocations, balances, allowance>>)]_vars

\* A release has just failed with "Nothing to release" on an allocation whose
\* claimed amount was reached by a release at the present timestamp.
C6_Witness ==
    /\ last.op = "release"
    /\ last.err = ErrNothing
    /\ now > 0
    /\ LET a == At(last.beneficiary, last.index)
       IN  /\ a.claimed = _vestedAmount(a, now)
           /\ a.claimed > _vestedAmount(a, now - 1)
           /\ a.claimed < a.total

\* C7: releaseAll does not fail because an allocation of the beneficiary has
\* nothing to release: whenever some allocation of the beneficiary has a
\* releasable amount, the call goes through.
C7_ReleaseAllSkipsEmpty ==
    (/\ last.op = "releaseAll"
     /\ \E i \in 0..MaxAllocs :
           /\ i < Len(allocations[last.beneficiary])
           /\ releasableAmount(last.beneficiary, i) > 0)
    => last.err # ErrNothing

FullyVestedUnclaimed(b) ==
    /\ Len(allocations[b]) > 0
    /\ \A i \in 1..Len(allocations[b]) :
          /\ now >= allocations[b][i].start + allocations[b][i].duration
          /\ allocations[b][i].claimed < allocations[b][i].total

\* C8: when every allocation of the beneficiary is fully vested and not
\* fully claimed, releaseAll succeeds, makes one transfer from the vault to
\* the beneficiary per allocation, of total - claimed each (what release on
\* that index pays), in all the sum of total - claimed, and leaves every
\* allocation with claimed = total.
C8_ReleaseAllPaysAll ==
    [][(last'.op = "releaseAll" /\ FullyVestedUnclaimed(last'.beneficiary))
       => LET b == last'.beneficiary
          IN  /\ last'.err = OK
              /\ Len(last'.sent) = Len(allocations[b])
              /\ \A i \in 1..Len(allocations[b]) :
                    /\ last'.sent[i] = Sent(Vault, b, Unclaimed(allocations[b][i]))
                    /\ allocations'[b][i] =
                         [allocations[b][i] EXCEPT !.claimed = allocations[b][i].total]
              /\ SumSent(last'.sent) = SumUnclaimed(allocations[b])
              /\ Len(allocations'[b]) = Len(allocations[b])]_vars

\* releaseAll has just paid two allocations in one call.
C8_Witness ==
    /\ last.op = "releaseAll"
    /\ last.err = OK
    /\ Len(last.sent) = 2
    /\ SumSent(last.sent) = 2
    /\ \A i \in 1..Len(allocations[last.beneficiary]) :
          allocations[last.beneficiary][i].claimed
             = allocations[last.beneficiary][i].total

C10_RevokePaysVested ==
    [][(last'.op = "revoke" /\ last'.err = OK)
       => LET b == last'.beneficiary
              a == allocations[b][last'.index + 1]
              vested == _releasableAmount(a, now)
          IN  /\ vested > 0 =>
                    \E k \in 1..Len(last'.sent) :
                       last'.sent[k] = Sent(Vault, b, vested)
              /\ \E k \in 1..Len(last'.sent) :
                    last'.sent[k] = Sent(Vault, Owner, a.total - a.claimed - vested)]_vars

\* ------------------------------------------------ StoreSpec: after a revoke
FullyVested(allocation) == now >= allocation.start + allocation.duration

\* One of alice's StoreGrants allocations has been revoked.
SomeRevoked == Len(allocations["alice"]) < StoreGrants

\* C11: once an allocation has been revoked, a later release or releaseAll
\* pays the beneficiary only out of the allocations still stored; when all of
\* them are fully vested, releaseAll transfers exactly their unclaimed totals
\* to the beneficiary and leaves each of them fully claimed.
C11_ReleaseAllAfterRevoke ==
    [][(SomeRevoked /\ last'.op \in {"release", "releaseAll"}
          /\ last'.beneficiary = "alice")
       => LET before == allocations["alice"]
              after  == allocations'["alice"]
          IN  /\ balances'["alice"] - balances["alice"]
                   = SumUnclaimed(before) - SumUnclaimed(after)
              /\ (last'.op = "releaseAll"
                    /\ \A i \in 1..Len(before) : FullyVested(before[i]))
                 => /\ SumSent(last'.sent) = SumUnclaimed(before)
                    /\ \A i \in 1..Len(last'.sent) : last'.sent[i].to = "alice"
                    /\ Len(after) = Len(before)
                    /\ \A i \in 1..Len(after) : after[i].claimed = after[i].total
      ]_vars

\* The same with every remaining allocation still holding something to claim.
C11_ReleaseAllAfterRevokeUnclaimed ==
    [][(SomeRevoked /\ last'.op \in {"release", "releaseAll"}
          /\ last'.beneficiary = "alice")
       => LET before == allocations["alice"]
              after  == allocations'["alice"]
          IN  /\ balances'["alice"] - balances["alice"]
                   = SumUnclaimed(before) - SumUnclaimed(after)
              /\ (last'.op = "releaseAll"
                    /\ \A i \in 1..Len(before) :
                          FullyVested(before[i]) /\ before[i].claimed < before[i].total)
                 => /\ SumSent(last'.sent) = SumUnclaimed(before)
                    /\ \A i \in 1..Len(last'.sent) : last'.sent[i].to = "alice"
                    /\ Len(after) = Len(before)
                    /\ \A i \in 1..Len(after) : after[i].claimed = after[i].total
      ]_vars

\* releaseAll has just paid alice the two allocations left after a revoke.
C11_Witness ==
    /\ SomeRevoked
    /\ last.op = "releaseAll"
    /\ last.err = OK
    /\ Len(last.sent) = StoreGrants - 1

\* ------------------------------------------------ Spec: release and issue
\* C12: for every stored allocation with claimed < total, once
\* now >= start + duration a release by any caller succeeds, transfers exactly
\* total - claimed to the beneficiary and leaves claimed = total.
C12_VestedReleasePaysRest ==
    [][(last'.op = "release" /\ <<last'.beneficiary, last'.index>> \in Stored)
       => LET b == last'.beneficiary
              i == last'.index
              a == At(b, i)
          IN  (FullyVested(a) /\ a.claimed < a.total)
              => /\ \A caller \in Callers : release(caller, b, i)
                 /\ last'.err = OK
                 /\ last'.sent = <<Sent(Vault, b, a.total - a.claimed)>>
                 /\ balances' = transfer(balances, Vault, b, a.total - a.claimed)
                 /\ allocations' = [allocations EXCEPT ![b][i + 1].claimed = a.total]
      ]_vars

\* A release after the end of a schedule with a duration has just paid alice
\* the whole of an allocation of which nothing was claimed before.
C12_Witness ==
    /\ last.op = "release"
    /\ last.err = OK
    /\ last.beneficiary = "alice"
    /\ LET a == At("alice", last.index)
       IN  /\ a.duration > 0
           /\ FullyVested(a)
           /\ a.claimed = a.total
           /\ last.sent = <<Sent(Vault, "alice", a.total)>>

\* The argument lists the owner calls issue with.
IssueArgs ==
    (Beneficiaries \cup {Zero}) \X (0..MaxAmount) \X Starts \X Cliffs
        \X Durations \X Pcts

\* The argument list fails one of the four validations of issue.
FailsValidation(args) ==
    \/ args[1] = Zero
    \/ args[4] > args[5]
    \/ args[6] > 100
    \/ allowance < args[2]

\* C13: an issue call that fails validation (zero beneficiary, cliff >
\* duration, initialPct > 100 or allowance below amount) is rejected: it
\* creates and changes no allocation, transfers nothing and changes no balance.
C13_InvalidIssueRejected ==
    [][(last'.op = "issue")
       => IF last'.err # OK
          THEN /\ last'.sent = <<>>
               /\ UNCHANGED <<allocations, balances, allowance>>
          ELSE \A args \in IssueArgs :
                  FailsValidation(args)
                  => ~issue(Owner, args[1], args[2], args[3], args[4], args[5], args[6])
      ]_vars

\* An issue has just been rejected for its cliff while an allowance was set
\* and an allocation was stored.
C13_Witness ==
    /\ last.op = "issue"
    /\ last.err = ErrCliff
    /\ allowance > 0
    /\ Stored # {}

\* C14: a successful issue(beneficiary, amount, startAt, cliff, duration,
\* initialPct) moves exactly amount from the caller to the vault and appends
\* to the beneficiary's sequence exactly one allocation {start = startAt,
\* cliff, duration, total = amount, claimed = 0, initial = floor(amount *
\* initialPct / 100)}, whether startAt is past, present or future; every
\* existing allocation of every beneficiary is unchanged.
C14_IssueAppends ==
    [][(last'.op = "issue" /\ last'.err = OK)
       => \A args \in IssueArgs :
             issue(Owner, args[1], args[2], args[3], args[4], args[5], args[6])
             => /\ last'.sent = <<Sent(Owner, Vault, args[2])>>
                /\ balances' = [balances EXCEPT ![Owner] = @ - args[2],
                                                ![Vault] = @ + args[2]]
                /\ allocations'[args[1]] =
                     Append(allocations[args[1]],
                            [start |-> args[3], cliff |-> args[4],
                             duration |-> args[5], total |-> args[2],
                             claimed |-> 0,
                             initial |-> (args[2] * args[6]) \div 100])
                /\ \A other \in Beneficiaries \ {args[1]} :
                      allocations'[other] = allocations[other]
      ]_vars

\* An issue has just appended, behind an allocation stored before, an
\* allocation whose start lies in the future.
C14_Witness ==
    /\ last.op = "issue"
    /\ last.err = OK
    /\ last.index = 1
    /\ At(last.beneficiary, 1).start > now
    /\ At(last.beneficiary, 1).initial > 0

\* The same for a start in the past and for a start at the time of the call.
C14_WitnessPast ==
    /\ last.op = "issue"
    /\ last.err = OK
    /\ At(last.beneficiary, last.index).start < now

C14_WitnessPresent ==
    /\ last.op = "issue"
    /\ last.err = OK
    /\ At(last.beneficiary, last.index).start = now

\* C18: the clock never runs backwards, and in every reachable state every
\* stored allocation has claimed <= vestedAmount(allocation, now); the
\* subtraction in releasableAmount does not underflow.
C18_ClaimedWithinVested ==
    \A p \in Stored :
        LET a == At(p[1], p[2])
        IN  /\ _vestedAmount(a, now) >= 0
            /\ a.claimed <= _vestedAmount(a, now)
            /\ releasableAmount(p[1], p[2]) >= 0

\* A release before the end of a schedule has just claimed all that has
\* vested so far, which is less than the total.
C18_Witness ==
    /\ last.op = "release"
    /\ last.err = OK
    /\ LET a == At(last.beneficiary, last.index)
       IN  /\ ~FullyVested(a)
           /\ a.claimed > 0
           /\ a.claimed = _vestedAmount(a, now)
           /\ a.claimed < a.total

\* ------------------------------------------------ StoreSpec: swap and pop
\* C19: a successful revoke(beneficiary, index) on a sequence of length n
\* leaves it with length n - 1, the former last allocation at index when
\* index # n - 1 and every other position below n - 1 unchanged; the other
\* beneficiaries' sequences are unchanged; release and releaseAll never change
\* the length of a sequence.
C19_RevokeSwapPop ==
    [][/\ (last'.op = "revoke" /\ last'.err = OK)
          => LET b      == last'.beneficiary
                 i      == last'.index
                 before == allocations[b]
                 after  == allocations'[b]
                 n      == Len(before)
             IN  /\ Len(after) = n - 1
                 /\ (i # n - 1) => after[i + 1] = before[n]
                 /\ \A j \in 1..(n - 1) : (j # i + 1) => after[j] = before[j]
                 /\ \A other \in Beneficiaries \ {b} :
                       allocations'[other] = allocations[other]
       /\ (last'.op \in {"release", "releaseAll"})
          => \A b \in Beneficiaries : Len(allocations'[b]) = Len(allocations[b])
      ]_vars

\* The first of three allocations has just been revoked: the third, which
\* differs from the second, is now stored at index 0 and the second stayed.
C19_Witness ==
    /\ last.op = "revoke"
    /\ last.err = OK
    /\ last.beneficiary = "alice"
    /\ last.index = 0
    /\ Len(allocations["alice"]) = 2
    /\ allocations["alice"][1] # allocations["alice"][2]
    /\ allocations[Vault] = <<StoreOther>>

\* ------------------------------------------------ CalcSpec: the division
\* C20: for every allocation that issue accepts, duration = 0 included, no
\* evaluation of _vestedAmount at any time divides by zero, so neither
\* release nor releasableAmount fails with a division error.
C20_NoDivisionByZero ==
    /\ \A t \in CalcTimes : _vestedAmount(Grant, t) # DivByZero
    /\ releasableAmount("alice", 0) # DivByZero
    /\ last.err # ErrDiv

\* An allocation of duration 0 has just been released.
C20_Witness ==
    /\ Grant.duration = 0
    /\ Grant.total > 0
    /\ last.op = "release"
    /\ last.err = OK

\* ------------------------------------------------ TxSpec: the token call
\* The allocations in the store that carry the id.
StoredWithId(id) ==
    {p \in Stored : At(p[1], p[2]).id = id}

\* C15: if the external token transfer inside issue, release or revoke
\* fails, the whole call fails without effect: store, balances and allowance
\* are what they were when the call was entered (no allocation created by
\* issue, claimed unchanged by release, the allocation at its index after
\* revoke), and the call is no longer in progress.
C15_FailedTransferNoEffect ==
    [][(last'.err = ErrTransfer)
       => LET f == stack[Len(stack') + 1]
          IN  /\ f.op = last'.op
              /\ allocations' = f.snap.allocations
              /\ balances' = f.snap.balances
              /\ allowance' = f.snap.allowance
      ]_vars

\* The transfer of a release called on its own has just failed: nothing is
\* claimed and alice holds nothing.
C15_Witness ==
    /\ last.op = "release"
    /\ last.err = ErrTransfer
    /\ stack = <<>>
    /\ balances["alice"] = 0
    /\ \A p \in Stored : At(p[1], p[2]).claimed = 0

C15_WitnessIssue ==
    /\ last.op = "issue"
    /\ last.err = ErrTransfer
    /\ Len(allocations["alice"]) = TxGrants

C15_WitnessRevoke ==
    /\ last.op = "revoke"
    /\ last.err = ErrTransfer
    /\ stack = <<>>
    /\ Len(allocations["alice"]) = TxGrants

\* C16: in every call that makes an external token transfer (issue, release,
\* revoke) all writes of the call to the store are made before the external
\* call is issued: the store changes only in the step that enters a call and
\* runs it up to its token call.
C16_WritesBeforeCall ==
    [][(allocations' # allocations /\ last'.err = OK)
       => Len(stack') > Len(stack)
      ]_vars

\* While a call is inside its token call, the store shows the write of a
\* release (claimed raised by the amount being transferred) and of a revoke
\* (the allocation removed), and does not show the allocation of an issue.
StoreDuringCall ==
    \A k \in 1..Len(stack) :
        LET f == stack[k]
        IN  /\ f.op = "release"
               => \A p \in StoredWithId(f.allocation.id) :
                     At(p[1], p[2]).claimed >= f.allocation.claimed + f.amount
            /\ f.op \in {"revoke", "issue"}
               => StoredWithId(f.allocation.id) = {}

\* C16 as the code has it: release and revoke make their writes to the store
\* before their token call; issue makes its write, the push of the new
\* allocation, after its token call has returned.
C16_WritesBeforeCallButIssue ==
    /\ []StoreDuringCall
    /\ [][(allocations' # allocations /\ last'.err = OK)
          => IF last'.op = "issue"
             THEN Len(stack') < Len(stack) /\ stack[Len(stack)].moved
             ELSE Len(stack') > Len(stack) /\ last'.op \in {"release", "revoke"}
         ]_vars

\* A release entered from inside the token call of a release of another
\* allocation is inside its own token call; both have raised claimed.
C16_Witness ==
    /\ Len(stack) = 2
    /\ stack[1].op = "release"
    /\ stack[2].op = "release"
    /\ \A k \in 1..2 :
          \E p \in StoredWithId(stack[k].allocation.id) :
             At(p[1], p[2]).claimed = stack[k].allocation.claimed + stack[k].amount

\* C17: whatever calls of release, releaseAll and revoke are made from inside
\* the token call of a release or revoke in progress, the tokens paid out on
\* account of one allocation, to the beneficiary and to the owner together,
\* never exceed its total.
C17_PaidWithinTotal ==
    \A id \in 1..Len(paid) : paid[id].out <= paid[id].total

\* A release is inside its token call, which has moved the balance; the
\* allocation it pays was revoked from inside that call, and all of its total
\* has been paid out.
C17_Witness ==
    /\ Len(stack) = 1
    /\ Top.op = "release"
    /\ Top.moved
    /\ StoredWithId(Top.allocation.id) = {}
    /\ Top.amount < paid[Top.allocation.id].total
    /\ paid[Top.allocation.id].out = paid[Top.allocation.id].total
====
